---- MODULE Spec2Model ----
(***************************************************************************)
(* aibox: directory-backed slot store, slot lifecycle manager, volume      *)
(* isolation policy, two-tier image cache and the start/stop façade.       *)
(*                                                                         *)
(* A container name "aibox-<project>-<k>" of the single modelled project   *)
(* is represented by the integer k, the empty container name by NoName.    *)
(* A host path <project-storage>/slots/slot-<n>/<p> is the pair <<n, p>>.  *)
(***************************************************************************)
EXTENDS Integers, Sequences, FiniteSets, TLC

VARIABLES
    slotDirs,     \* ~/.aibox/projects/<storage>/slots/slot-<n> directories
    containers,   \* container engine: containers by name
    imageTags,    \* container engine: fingerprint tags <<repo, hash>>
    latestTag,    \* container engine: repo -> hash the :latest tag points at
    config,       \* project configuration: the profile list in aibox.yml
    now,          \* wall clock, one tick per command invocation
    inv,          \* the running or last finished command invocation
    probe         \* input/output of a function applied on its own

vars == <<slotDirs, containers, imageTags, latestTag, config, now, inv, probe>>

---------------------------------------------------------------------------
\* Bounds of the model

MaxSlotNum == 2      \* largest slot number a user types or is assigned
MaxClock == 3        \* command invocations in one run
MaxDirNum == 4       \* largest slot-<n> directory of a store examined on its own

\* Program constants
max_slots == 10

Providers == {"claude", "gemini"}
ProfileLists == {<<"python">>, <<"nodejs", "python">>}
base_image == "debian:bookworm-slim"

NoName == -1
NoSlot == -1
NoHash == <<>>
SlotNums == 0..MaxSlotNum

---------------------------------------------------------------------------
\* Slot directories and records (SlotConfig).  meta is the state of metadata.yml:
\* "none" no file, "record" a mapping written by save, "unparsable" a file on
\* which yaml.safe_load raises YAMLError or that is empty, "scalar" a file that
\* parses to a value that is not a mapping.

NoDir ==
    [present |-> FALSE, meta |-> "none", ai_provider |-> "", container_name |-> NoName,
     created_at |-> 0, last_used |-> 0, paths |-> {}, nested |-> {}]

\* SlotConfig.exists: the metadata file is present
Exists(dirs, n) == n \in DOMAIN dirs /\ dirs[n].present /\ dirs[n].meta # "none"

\* SlotConfig.load returns a record (not None): the file exists and parses to a mapping
Loads(dirs, n) == Exists(dirs, n) /\ dirs[n].meta = "record"

\* SlotConfig.load: the parsed record
Load(dirs, n) ==
    [ai_provider |-> dirs[n].ai_provider, container_name |-> dirs[n].container_name,
     created_at |-> dirs[n].created_at, last_used |-> dirs[n].last_used]

\* a get_ai_provider that falls back to a default provider
GetAiProviderOrDefault(dirs, n) == IF Loads(dirs, n) THEN dirs[n].ai_provider ELSE "claude"

\* SlotConfig.get_ai_provider ("" stands for None)
GetAiProvider(dirs, n) == IF Loads(dirs, n) THEN dirs[n].ai_provider ELSE ""

\* SlotConfig.get_container_name (NoName stands for None and for "")
GetContainerName(dirs, n) == IF Loads(dirs, n) THEN dirs[n].container_name ELSE NoName

\* SlotConfig.save: mkdir, then write the whole record with both timestamps set to now
Save(dirs, n, provider, cname, t) ==
    [dirs EXCEPT ![n] = [@ EXCEPT !.present = TRUE, !.meta = "record",
                                   !.ai_provider = provider, !.container_name = cname,
                                   !.created_at = t, !.last_used = t]]

\* a deletion that unlinks the metadata file and leaves the directory behind
DeleteMetadataOnly(dirs, n) ==
    IF n \in DOMAIN dirs /\ dirs[n].present
    THEN [dirs EXCEPT ![n].meta = "none", ![n].ai_provider = "", ![n].container_name = NoName,
                      ![n].created_at = 0, ![n].last_used = 0]
    ELSE dirs

\* SlotConfig.delete: rmtree of the slot directory
Delete(dirs, n) == IF n \in DOMAIN dirs THEN [dirs EXCEPT ![n] = NoDir] ELSE dirs

---------------------------------------------------------------------------
\* SlotManager

Min(a, b) == IF a < b THEN a ELSE b

\* decimal spelling of a slot number, as it appears in the directory name
Digits(n) == IF n < 10 THEN <<n>> ELSE <<n \div 10, n % 10>>

\* string order of two spellings
LexLess(s, t) ==
    \/ Len(s) < Len(t) /\ SubSeq(t, 1, Len(s)) = s
    \/ \E i \in 1..Min(Len(s), Len(t)) :
          /\ SubSeq(s, 1, i - 1) = SubSeq(t, 1, i - 1)
          /\ s[i] < t[i]

\* sorted(self.slots_dir.glob("slot-*")): directory names in string order
RECURSIVE SortedGlob(_)
SortedGlob(S) ==
    IF S = {} THEN <<>>
    ELSE LET m == CHOOSE x \in S : \A y \in S \ {x} : LexLess(Digits(x), Digits(y))
         IN <<m>> \o SortedGlob(S \ {m})

\* list_slots: numbers of the directories whose record loads, in glob order
ListSlots(dirs) ==
    SelectSeq(SortedGlob({n \in DOMAIN dirs : dirs[n].present}),
              LAMBDA n : Loads(dirs, n))

\* list_slots raises TypeError: a metadata file that parses to a value that is
\* not a mapping (meta "scalar") is returned by load and then unpacked with **
ListSlotsRaises(dirs) == \E n \in DOMAIN dirs : dirs[n].present /\ dirs[n].meta = "scalar"

\* find_available_slot over the set of numbers whose metadata file exists;
\* NoSlot stands for raising NoAvailableSlotsError
RECURSIVE FindFrom(_, _)
FindFrom(occupied, i) ==
    IF i > max_slots THEN NoSlot
    ELSE IF i \notin occupied THEN i
    ELSE FindFrom(occupied, i + 1)

\* a scan over range(max_slots) instead of range(1, max_slots + 1)
FindAvailableSlotFromZero(occupied) == FindFrom(occupied, 0)

FindAvailableSlot(occupied) == FindFrom(occupied, 1)

Occupied(dirs) == {n \in DOMAIN dirs : Exists(dirs, n)}

\* sorted(slots, key=lambda s: s["slot"])
RECURSIVE SortedByNumber(_)
SortedByNumber(S) ==
    IF S = {} THEN <<>>
    ELSE LET m == CHOOSE x \in S : \A y \in S : x <= y
         IN <<m>> \o SortedByNumber(S \ {m})

Range(seq) == {seq[i] : i \in DOMAIN seq}

\* an allocation that fills the lowest gap of the listed numbers
GetNextSlotNumberLowestGap(dirs) == FindFrom(Range(ListSlots(dirs)), 1)

\* get_next_slot_number; NoSlot stands for raising NoAvailableSlotsError
GetNextSlotNumber(dirs) ==
    LET slots == Range(ListSlots(dirs))
        max_slot == CHOOSE m \in slots : \A x \in slots : x <= m
    IN IF slots = {} THEN 1
       ELSE IF max_slot + 1 > max_slots THEN NoSlot
       ELSE max_slot + 1

\* shutil.move(old_dir, new_dir) followed by the rewrite of the timestamps:
\* a rename when new_dir is absent, a move INTO new_dir when it is a directory,
\* shutil.Error when new_dir already holds an entry of that name
MoveSlotDir(d, old, new, slot_data) ==
    IF ~d[new].present
    THEN LET moved == [d EXCEPT ![new] = d[old], ![old] = NoDir]
         IN [dirs |-> IF Loads(moved, new)
                      THEN [moved EXCEPT ![new].created_at = slot_data.created_at,
                                         ![new].last_used = slot_data.last_used]
                      ELSE moved,
             raised |-> FALSE]
    ELSE IF old \in d[new].nested
    THEN [dirs |-> d, raised |-> TRUE]
    ELSE LET moved == [d EXCEPT ![new].nested = @ \cup {old}, ![old] = NoDir]
         IN [dirs |-> IF Loads(moved, new)
                      THEN [moved EXCEPT ![new].created_at = slot_data.created_at,
                                         ![new].last_used = slot_data.last_used]
                      ELSE moved,
             raised |-> FALSE]

\* the loop of renumber_slots over enumerate(sorted_slots, start=1), from index i
RECURSIVE RenumberFrom(_, _, _, _)
RenumberFrom(d, listed, sorted_slots, i) ==
    IF i > Len(sorted_slots) THEN [dirs |-> d, raised |-> FALSE]
    ELSE LET old_slot_num == sorted_slots[i]
         IN IF old_slot_num = i \/ ~d[old_slot_num].present
            THEN RenumberFrom(d, listed, sorted_slots, i + 1)
            ELSE LET m == MoveSlotDir(d, old_slot_num, i, Load(listed, old_slot_num))
                 IN IF m.raised THEN m
                    ELSE RenumberFrom(m.dirs, listed, sorted_slots, i + 1)

\* renumber_slots
RenumberSlots(dirs) ==
    RenumberFrom(dirs, dirs, SortedByNumber(Range(ListSlots(dirs))), 1)

---------------------------------------------------------------------------
\* Providers, Dockerfiles and fingerprints

\* AIProvider.get_mount_paths
MountPaths(provider) == IF provider = "claude" THEN {".claude"} ELSE {".gemini"}

\* Path.suffix of a mount path: the part of the name from its last dot on; a
\* leading dot does not start a suffix
Suffix(path) ==
    CASE path = ".history.txt" -> ".txt"
      [] path = ".settings.yaml" -> ".yaml"
      [] OTHER -> ""

\* alphabetical rank of a profile spec, the order sorted() uses
ProfileRank(p) == IF p = "nodejs" THEN 1 ELSE 2

RECURSIVE SortedProfiles(_)
SortedProfiles(S) ==
    IF S = {} THEN <<>>
    ELSE LET m == CHOOSE x \in S : \A y \in S : ProfileRank(x) <= ProfileRank(y)
         IN <<m>> \o SortedProfiles(S \ {m})

\* DockerfileGenerator.generate(ai_provider=None): FROM line, then one ARG line and
\* one section per profile in the order given
Generate(profiles) == <<"FROM", base_image>> \o profiles

\* DockerfileGenerator.generate_provider_layer
GenerateProviderLayer(base_tag, ai_provider) == <<"FROM", base_tag, ai_provider>>

\* a base fingerprint that joins the profile list as configured, unsorted
GenerateBaseImageHashUnsorted(dockerfile_content, base, profiles) ==
    <<dockerfile_content, base, profiles>>

\* _generate_base_image_hash: digest of the joined parts (the digest is collision free
\* on the modelled inputs, so it is represented by the content it is computed from)
GenerateBaseImageHash(dockerfile_content, base, profiles) ==
    <<dockerfile_content, base, SortedProfiles(Range(profiles))>>

\* an agent fingerprint taken from the layer body and the agent name alone
GenerateProviderImageHashNoBase(dockerfile_content, provider_name, base_hash) ==
    <<dockerfile_content, provider_name>>

\* _generate_provider_image_hash
GenerateProviderImageHash(dockerfile_content, provider_name, base_hash) ==
    <<dockerfile_content, provider_name, base_hash>>

BaseTagHash(profiles) == <<"base", GenerateBaseImageHash(Generate(profiles), base_image, profiles)>>

ProviderTagHash(profiles, provider) ==
    <<provider, GenerateProviderImageHash(GenerateProviderLayer(BaseTagHash(profiles), provider),
                                          provider, BaseTagHash(profiles)[2])>>

Repos == {"base"} \cup Providers

---------------------------------------------------------------------------
\* (below, first: an _ensure_image_exists that never consults the cache)
\* _ensure_image_exists against the engine's tag table.  faults names the engine
\* calls that raise: "retag" the tag_image of a cached image, "build" the build,
\* "notag" a build that ends without producing the tag, "tag" the tag_image after a build.
\* calls lists what was asked of the engine: "retag_failed", "build", and
\* "tag_missing" when the image_exists check after the build found no tag.
EnsureImageAlwaysBuilds(tags, latest, tag, faults) ==
    IF faults # {}
    THEN [tags |-> tags, latest |-> latest, built |-> FALSE, calls |-> {"build"},
          error |-> "ImageBuildError"]
    ELSE [tags |-> tags \cup {tag}, latest |-> [latest EXCEPT ![tag[1]] = tag[2]],
          built |-> TRUE, calls |-> {"build"}, error |-> "none"]

\* an _ensure_image_exists that shrugs off a failed retag of a cached image
EnsureImageIgnoresRetagFailure(tags, latest, tag, faults) ==
    IF tag \in tags
    THEN [tags |-> tags,
          latest |-> IF "retag" \in faults THEN latest ELSE [latest EXCEPT ![tag[1]] = tag[2]],
          built |-> FALSE, calls |-> {}, error |-> "none"]
    ELSE IF faults \cap {"build", "notag"} # {}
    THEN [tags |-> tags, latest |-> latest, built |-> FALSE, calls |-> {"build"},
          error |-> "ImageBuildError"]
    ELSE IF "tag" \in faults
    THEN [tags |-> tags \cup {tag}, latest |-> latest, built |-> FALSE, calls |-> {"build"},
          error |-> "DockerError"]
    ELSE [tags |-> tags \cup {tag}, latest |-> [latest EXCEPT ![tag[1]] = tag[2]],
          built |-> TRUE, calls |-> {"build"}, error |-> "none"]

\* an _ensure_image_exists that goes on when the build left no tag
EnsureImageTrustsBuild(tags, latest, tag, faults) ==
    LET retagged == [latest EXCEPT ![tag[1]] = tag[2]]
        Result(t, l, built, calls, err) ==
            [tags |-> t, latest |-> l, built |-> built, calls |-> calls, error |-> err]
    IN IF tag \in tags
       THEN IF "retag" \notin faults THEN Result(tags, retagged, FALSE, {}, "none")
            ELSE IF "build" \in faults
                 THEN Result(tags, latest, FALSE, {"retag_failed", "build"}, "ImageBuildError")
            ELSE IF "tag" \in faults
                 THEN Result(tags, latest, FALSE, {"retag_failed", "build"}, "DockerError")
            ELSE Result(tags, retagged, TRUE, {"retag_failed", "build"}, "none")
       ELSE IF "build" \in faults THEN Result(tags, latest, FALSE, {"build"}, "ImageBuildError")
            ELSE IF "notag" \in faults
                 THEN Result(tags, retagged, TRUE, {"build", "tag_missing"}, "none")
            ELSE IF "tag" \in faults THEN Result(tags \cup {tag}, latest, FALSE, {"build"}, "DockerError")
            ELSE Result(tags \cup {tag}, retagged, TRUE, {"build"}, "none")

EnsureImageExists(tags, latest, tag, faults) ==
    LET retagged == [latest EXCEPT ![tag[1]] = tag[2]]
        Result(t, l, built, calls, err) ==
            [tags |-> t, latest |-> l, built |-> built, calls |-> calls, error |-> err]
    IN IF tag \in tags
       THEN IF "retag" \notin faults THEN Result(tags, retagged, FALSE, {}, "none")
            ELSE IF "build" \in faults
                 THEN Result(tags, latest, FALSE, {"retag_failed", "build"}, "ImageBuildError")
            ELSE IF "tag" \in faults
                 THEN Result(tags, latest, FALSE, {"retag_failed", "build"}, "DockerError")
            ELSE Result(tags, retagged, TRUE, {"retag_failed", "build"}, "none")
       ELSE IF "build" \in faults THEN Result(tags, latest, FALSE, {"build"}, "ImageBuildError")
            ELSE IF "notag" \in faults
                 THEN Result(tags, latest, FALSE, {"build", "tag_missing"}, "ImageBuildError")
            ELSE IF "tag" \in faults THEN Result(tags \cup {tag}, latest, FALSE, {"build"}, "DockerError")
            ELSE Result(tags \cup {tag}, retagged, TRUE, {"build"}, "none")

EnsureFaults == {"retag", "build", "notag", "tag"}

---------------------------------------------------------------------------
\* VolumeManager.prepare_volumes: the workspace mount and one read-write mount per
\* provider configuration path, rooted in the slot's own directory; absent
\* directories are created, absent files are skipped.  claude_json tells whether
\* the agent has left a .claude/.claude.json in the slot directory, which is then
\* mounted as well.  The project configures no custom mounts.
WorkspaceMount == [host |-> <<NoSlot, "project">>, bind |-> <<"/workspace", "">>, mode |-> "rw"]

\* one configuration directory shared by all slots of the project
SharedRoot(slot_number) == 0

\* the slot directory the configuration paths are rooted in
SlotRoot(slot_number) == slot_number

\* a prepare_volumes that also writes the slot record
PrepareVolumesAndBind(dirs, slot_number, provider, claude_json) ==
    LET made == [dirs EXCEPT ![slot_number].present = TRUE,
                             ![slot_number].meta = "record",
                             ![slot_number].ai_provider = provider,
                             ![slot_number].container_name = slot_number,
                             ![slot_number].paths = @ \cup MountPaths(provider)]
    IN [dirs |-> made,
        volumes |-> {WorkspaceMount} \cup
                    {[host |-> <<slot_number, p>>, bind |-> <<"/home/aibox", p>>,
                      mode |-> "rw"] : p \in MountPaths(provider)}]

\* a creation step that makes every missing path, files included
MissingPathsAll(existing, mount_paths) == mount_paths \ existing

\* the paths the loop creates with mkdir: the missing ones without a suffix
MissingDirectories(existing, mount_paths) ==
    {p \in mount_paths : p \notin existing /\ Suffix(p) = ""}

\* prepare_volumes for a provider with the given name and mount paths
PrepareVolumesOf(dirs, slot_number, name, mount_paths, claude_json) ==
    LET made == [dirs EXCEPT ![slot_number].present = TRUE]
        created == MissingDirectories(made[slot_number].paths, mount_paths)
        after == [made EXCEPT ![slot_number].paths = @ \cup created]
        mounted == {p \in mount_paths : p \in after[slot_number].paths}
    IN [dirs |-> after,
        volumes |-> {WorkspaceMount} \cup
                    {[host |-> <<SlotRoot(slot_number), p>>, bind |-> <<"/home/aibox", p>>,
                      mode |-> "rw"] : p \in mounted} \cup
                    (IF name = "claude" /\ claude_json
                     THEN {[host |-> <<SlotRoot(slot_number), ".claude/.claude.json">>,
                            bind |-> <<"/home/aibox", ".claude.json">>, mode |-> "rw"]}
                     ELSE {})]

PrepareVolumes(dirs, slot_number, provider, claude_json) ==
    PrepareVolumesOf(dirs, slot_number, provider, MountPaths(provider), claude_json)

---------------------------------------------------------------------------
\* Container engine

NoContainer == [status |-> "absent", image |-> NoHash, mounts |-> {}, auto_remove |-> FALSE]

\* a running check against a status the engine never reports
IsContainerUp(cs, name) == name \in DOMAIN cs /\ cs[name].status = "up"

\* ContainerManager.is_container_running
IsContainerRunning(cs, name) == name \in DOMAIN cs /\ cs[name].status = "running"

\* a lookup that never finds the container
ContainerLookupMisses(cs, name) == FALSE

\* ContainerManager.get_container is not None
ContainerExists(cs, name) == name \in DOMAIN cs /\ cs[name].status # "absent"

\* ContainerManager.is_image_in_use: some container was created from the image the
\* tag refers to
IsImageInUse(cs, image) == \E c \in DOMAIN cs : cs[c].status # "absent" /\ cs[c].image = image

\* the engine stops a container: an auto-remove container disappears
Stopped(cs, name) ==
    IF name \in DOMAIN cs /\ cs[name].status = "running"
    THEN [cs EXCEPT ![name] = IF @.auto_remove THEN NoContainer ELSE [@ EXCEPT !.status = "exited"]]
    ELSE cs

---------------------------------------------------------------------------
\* Command invocations

Idle == inv.pc \in {"done", "error"}

NoInv ==
    [op |-> "none", pc |-> "done", slot |-> NoSlot, agent_arg |-> "", provider |-> "",
     error |-> "none", built |-> {}, engine |-> {}, skipped |-> FALSE, cfg |-> <<>>,
     ensured |-> FALSE, repeat |-> "no", volumes |-> {}, listed |-> <<>>, before |-> <<>>]

\* an invocation that has returned or raised: its working data is gone; what it
\* was asked, and what its last phase (images, then container) asked of the
\* engine, stays observable
Finished(call, err) ==
    [call EXCEPT !.pc = IF err = "none" THEN "done" ELSE "error", !.error = err,
                 !.volumes = {}, !.before = <<>>]

\* the records of the slot store, by slot number
Records(dirs) ==
    [n \in DOMAIN dirs |->
        [meta |-> dirs[n].meta, ai_provider |-> dirs[n].ai_provider,
         container_name |-> dirs[n].container_name,
         created_at |-> dirs[n].created_at, last_used |-> dirs[n].last_used]]

---------------------------------------------------------------------------
\* ContainerOrchestrator.start_container, one action per stage

\* Steps 1-3: load the configuration, assign the slot, determine the provider.
\* repeat notes whether the previous command was a Start with the same profiles,
\* base image and provider that got past both image layers.
StartBegin(slot_number, ai_provider) ==
    /\ Idle
    /\ now < MaxClock
    /\ LET slot == IF slot_number = NoSlot THEN FindAvailableSlot(Occupied(slotDirs))
                   ELSE slot_number
           preconfigured_provider == GetAiProvider(slotDirs, slot)
           call == [NoInv EXCEPT !.op = "start", !.slot = slot, !.agent_arg = ai_provider,
                                 !.cfg = config, !.before = Records(slotDirs)]
           Raise(err) == Finished(call, err)
           Proceed(name) ==
               [call EXCEPT !.pc = "ensure_base", !.provider = name,
                            !.repeat =
                                IF /\ inv.op = "start" /\ inv.ensured
                                   /\ inv.cfg = config /\ inv.provider = name
                                THEN IF inv.pc = "done" THEN "after_done" ELSE "after_failed"
                                ELSE "no"]
       IN /\ slot <= MaxSlotNum
          /\ inv' = IF slot = NoSlot THEN Raise("NoAvailableSlotsError")
                    ELSE IF ai_provider # "" THEN Proceed(ai_provider)
                    ELSE IF slot < 1 THEN Raise("SlotNotFoundError")
                    ELSE IF preconfigured_provider # "" THEN Proceed(preconfigured_provider)
                    ELSE Raise("No AI provider specified for slot")
    /\ now' = now + 1
    /\ UNCHANGED <<slotDirs, containers, imageTags, latestTag, config, probe>>

\* a step 5 that goes on to the provider layer whatever became of the base image
StartEnsureBaseLenient(faults) ==
    /\ inv.op = "start" /\ inv.pc = "ensure_base"
    /\ LET r == EnsureImageExists(imageTags, latestTag, BaseTagHash(inv.cfg), faults)
       IN /\ imageTags' = r.tags
          /\ latestTag' = r.latest
          /\ inv' = [inv EXCEPT !.engine = @ \cup {<<"base", c>> : c \in r.calls},
                                !.pc = "ensure_provider", !.agent_arg = "",
                                !.built = IF r.built THEN @ \cup {"base"} ELSE @]
    /\ UNCHANGED <<slotDirs, containers, config, now, probe>>

\* Step 5: build or reuse the provider-agnostic base image
StartEnsureBase(faults) ==
    /\ inv.op = "start" /\ inv.pc = "ensure_base"
    /\ LET r == EnsureImageExists(imageTags, latestTag, BaseTagHash(inv.cfg), faults)
       IN /\ imageTags' = r.tags
          /\ latestTag' = r.latest
          /\ inv' = LET did == [inv EXCEPT !.engine = @ \cup {<<"base", c>> : c \in r.calls}]
                    IN IF r.error # "none" THEN Finished(did, r.error)
                       ELSE [did EXCEPT !.pc = "ensure_provider", !.agent_arg = "",
                                        !.built = IF r.built THEN @ \cup {"base"} ELSE @]
    /\ UNCHANGED <<slotDirs, containers, config, now, probe>>

\* a step 6 that has the dangling images pruned after a cache hit too
StartEnsureProviderAlwaysPrunes(faults) ==
    /\ inv.op = "start" /\ inv.pc = "ensure_provider"
    /\ LET r == EnsureImageExists(imageTags, latestTag,
                                  ProviderTagHash(inv.cfg, inv.provider), faults)
       IN /\ imageTags' = r.tags
          /\ latestTag' = r.latest
          /\ inv' = LET did == [inv EXCEPT !.engine = @ \cup {<<"provider", c>> : c \in r.calls}]
                    IN IF r.error # "none" THEN Finished(did, r.error)
                       ELSE [did EXCEPT !.pc = "prune", !.ensured = TRUE,
                                        !.built = IF r.built THEN @ \cup {"provider"} ELSE @]
    /\ UNCHANGED <<slotDirs, containers, config, now, probe>>

\* Step 6: build or reuse the provider layer on top of the base
StartEnsureProvider(faults) ==
    /\ inv.op = "start" /\ inv.pc = "ensure_provider"
    /\ LET r == EnsureImageExists(imageTags, latestTag,
                                  ProviderTagHash(inv.cfg, inv.provider), faults)
       IN /\ imageTags' = r.tags
          /\ latestTag' = r.latest
          /\ inv' = LET did == [inv EXCEPT !.engine = @ \cup {<<"provider", c>> : c \in r.calls}]
                    IN IF r.error # "none" THEN Finished(did, r.error)
                       ELSE [did EXCEPT !.pc = IF r.built THEN "prune" ELSE "volumes",
                                        !.ensured = TRUE,
                                        !.built = IF r.built THEN @ \cup {"provider"} ELSE @]
    /\ UNCHANGED <<slotDirs, containers, config, now, probe>>

\* prune_dangling_images after a provider build; a DockerError is not caught
StartPrune(fault) ==
    /\ inv.op = "start" /\ inv.pc = "prune"
    /\ inv' = IF fault THEN Finished([inv EXCEPT !.engine = @ \cup {<<"images", "prune">>}],
                                     "DockerError")
              ELSE [inv EXCEPT !.pc = "volumes", !.engine = @ \cup {<<"images", "prune">>}]
    /\ UNCHANGED <<slotDirs, containers, imageTags, latestTag, config, now, probe>>

\* Steps 6-7: prepare the per-slot volumes; a .claude.json can only be there when
\* the slot's .claude directory was there before
StartVolumes(claude_json) ==
    /\ inv.op = "start" /\ inv.pc = "volumes"
    /\ claude_json => (inv.provider = "claude" /\ ".claude" \in slotDirs[inv.slot].paths)
    /\ LET v == PrepareVolumes(slotDirs, inv.slot, inv.provider, claude_json)
       IN /\ slotDirs' = v.dirs
          /\ inv' = [inv EXCEPT !.pc = "container", !.volumes = v.volumes,
                                 !.engine = {}, !.built = {}, !.repeat = "no"]
    /\ UNCHANGED <<containers, imageTags, latestTag, config, now, probe>>

ContainerStatus(cs, name) == cs[name].status

\* Step 8: reuse, restart or create the container named after the slot number;
\* the engine refuses to create a container under a name that is taken.
\* The arguments reuse_existing and auto_remove of the call are first read here;
\* start_command, the caller, passes reuse_existing=True and its --auto-delete flag.
StartContainer(reuse_existing, auto_remove, faults) ==
    /\ inv.op = "start" /\ inv.pc = "container"
    /\ LET container_name == inv.slot
           existing == ContainerExists(containers, container_name)
           fresh == [status |-> "created", image |-> <<inv.provider, latestTag[inv.provider]>>,
                     mounts |-> inv.volumes, auto_remove |-> auto_remove]
           did(calls) ==
               [inv EXCEPT !.engine = {<<"container", c>> : c \in calls}]
           Fail(cs, calls) ==
               /\ containers' = cs
               /\ inv' = Finished(did(calls), "ContainerStartError")
           Ok(cs, calls) ==
               /\ containers' = cs
               /\ inv' = [did(calls) EXCEPT !.pc = "save"]
       IN IF reuse_existing /\ existing
          THEN IF IsContainerRunning(containers, container_name)
               THEN Ok(containers, {})
               ELSE IF "start" \in faults
                    THEN Fail(containers, {"start"})
                    ELSE Ok([containers EXCEPT ![container_name].status = "running"], {"start"})
          ELSE IF ContainerStatus(containers, container_name) # "absent" \/ "create" \in faults
               THEN Fail(containers, {"create"})
               ELSE IF "start" \in faults
                    THEN Fail([containers EXCEPT ![container_name] = fresh], {"create", "start"})
                    ELSE Ok([containers EXCEPT ![container_name] =
                                 [fresh EXCEPT !.status = "running"]], {"create", "start"})
    /\ UNCHANGED <<slotDirs, imageTags, latestTag, config, now, probe>>

\* Step 9: get_slot, then save the slot metadata
StartSave ==
    /\ inv.op = "start" /\ inv.pc = "save"
    /\ IF inv.slot < 1
       THEN /\ inv' = Finished(inv, "SlotNotFoundError")
            /\ UNCHANGED slotDirs
       ELSE /\ slotDirs' = Save(slotDirs, inv.slot, inv.provider, inv.slot, now)
            /\ inv' = Finished(inv, "none")
    /\ UNCHANGED <<containers, imageTags, latestTag, config, now, probe>>

---------------------------------------------------------------------------
\* a stop that also deletes the slot directory
StopContainerAndDelete(slot_number, fault) ==
    /\ Idle
    /\ now < MaxClock
    /\ now' = now + 1
    /\ slot_number >= 1
    /\ inv' = Finished([NoInv EXCEPT !.op = "stop", !.slot = slot_number], "none")
    /\ containers' = Stopped(containers, GetContainerName(slotDirs, slot_number))
    /\ slotDirs' = Delete(slotDirs, slot_number)
    /\ UNCHANGED <<imageTags, latestTag, config, probe>>

\* ContainerOrchestrator.stop_container
StopContainer(slot_number, fault) ==
    /\ Idle
    /\ now < MaxClock
    /\ now' = now + 1
    /\ LET call == [NoInv EXCEPT !.op = "stop", !.slot = slot_number]
           recorded == GetContainerName(slotDirs, slot_number)
           container_name == IF recorded # NoName THEN recorded ELSE slot_number
       IN IF slot_number < 1
          THEN /\ inv' = Finished(call, "SlotNotFoundError")
               /\ UNCHANGED containers
          ELSE IF ~ContainerExists(containers, container_name) \/ fault
          THEN /\ inv' = Finished(call, "DockerError")
               /\ UNCHANGED containers
          ELSE /\ inv' = Finished(call, "none")
               /\ containers' = Stopped(containers, container_name)
    /\ UNCHANGED <<slotDirs, imageTags, latestTag, config, probe>>

---------------------------------------------------------------------------
\* a removal of every tag of the repository, used by a container or not
RemoveProviderImagesUnguarded(cs, tags, latest, image_repo, faults) ==
    LET listed == IF "list_images" \in faults THEN {}
                  ELSE {t \in tags : t[1] = image_repo}
        can_remove == "remove_image" \notin faults
        gone == IF can_remove THEN listed ELSE {}
        latest_gone == can_remove /\ latest[image_repo] # NoHash
    IN [tags |-> tags \ gone,
        latest |-> IF latest_gone THEN [latest EXCEPT ![image_repo] = NoHash] ELSE latest,
        removed |-> gone # {} \/ latest_gone]

\* SlotManager._remove_provider_images: every tag of the repository that no
\* container uses is removed, :latest as a fallback when nothing was removed
RemoveProviderImages(cs, tags, latest, image_repo, faults) ==
    LET listed == IF "list_images" \in faults THEN {}
                  ELSE {t \in tags : t[1] = image_repo}
        latest_listed == "list_images" \notin faults /\ latest[image_repo] # NoHash
        can_remove == "remove_image" \notin faults
        gone == IF can_remove THEN {t \in listed : ~IsImageInUse(cs, t)} ELSE {}
        latest_gone == /\ can_remove
                       /\ latest[image_repo] # NoHash
                       /\ ~IsImageInUse(cs, <<image_repo, latest[image_repo]>>)
    IN [tags |-> tags \ gone,
        latest |-> IF latest_gone THEN [latest EXCEPT ![image_repo] = NoHash] ELSE latest,
        removed |-> gone # {} \/ (latest_listed /\ latest_gone)]

CleanupFaults == {"remove_container", "remove_image", "list_images"}

\* SlotManager.cleanup_slot
CleanupSlot(slot_num, docker_up, faults) ==
    /\ Idle
    /\ now < MaxClock
    /\ now' = now + 1
    /\ docker_up \/ \A c \in SlotNums : containers[c].status # "running"
    /\ LET call == [NoInv EXCEPT !.op = "cleanup_slot", !.slot = slot_num,
                                 !.listed = ListSlots(slotDirs)]
           has_data == Loads(slotDirs, slot_num)
           container_name == GetContainerName(slotDirs, slot_num)
           ai_provider == GetAiProvider(slotDirs, slot_num)
           engine_part == has_data /\ container_name # NoName /\ ai_provider # "" /\ docker_up
           running == engine_part /\ IsContainerRunning(containers, container_name)
           removes == /\ engine_part
                      /\ ContainerExists(containers, container_name)
                      /\ "remove_container" \notin faults
           cs == IF removes THEN [containers EXCEPT ![container_name] = NoContainer]
                 ELSE containers
           im == IF engine_part
                 THEN RemoveProviderImages(cs, imageTags, latestTag, ai_provider, faults)
                 ELSE [tags |-> imageTags, latest |-> latestTag, removed |-> FALSE]
           r == RenumberSlots(Delete(slotDirs, slot_num))
       IN IF slot_num < 1
          THEN /\ inv' = Finished(call, "SlotNotFoundError")
               /\ UNCHANGED <<slotDirs, containers, imageTags, latestTag>>
          ELSE IF running
          THEN /\ inv' = [Finished(call, "none") EXCEPT !.skipped = TRUE]
               /\ UNCHANGED <<slotDirs, containers, imageTags, latestTag>>
          ELSE /\ containers' = cs
               /\ imageTags' = im.tags
               /\ latestTag' = im.latest
               /\ slotDirs' = r.dirs
               /\ inv' = Finished(call, IF r.raised THEN "shutil.Error" ELSE "none")
    /\ UNCHANGED <<config, probe>>

\* the loop of cleanup_all_slots over the providers found in the records
RECURSIVE RemoveImagesOf(_, _, _, _, _)
RemoveImagesOf(providers, cs, tags, latest, faults) ==
    IF providers = {} THEN [tags |-> tags, latest |-> latest]
    ELSE LET provider == CHOOSE x \in providers : TRUE
             r == RemoveProviderImages(cs, tags, latest, provider, faults)
         IN RemoveImagesOf(providers \ {provider}, cs, r.tags, r.latest, faults)

\* a cleanup_all_slots that deletes every slot directory, running or not
CleanupAllSlotsNoSkip(docker_up, faults) ==
    /\ Idle
    /\ now < MaxClock
    /\ now' = now + 1
    /\ docker_up \/ \A c \in SlotNums : containers[c].status # "running"
    /\ slotDirs' = [n \in DOMAIN slotDirs |-> NoDir]
    /\ inv' = Finished([NoInv EXCEPT !.op = "cleanup_all_slots",
                                     !.listed = ListSlots(slotDirs)], "none")
    /\ UNCHANGED <<containers, imageTags, latestTag, config, probe>>

\* SlotManager.cleanup_all_slots.  engine notes what the engine did not do:
\* it was unreachable, or it refused to remove a container
CleanupAllSlots(docker_up, faults) ==
    /\ Idle
    /\ now < MaxClock
    /\ now' = now + 1
    /\ docker_up \/ \A c \in SlotNums : containers[c].status # "running"
    /\ LET slot_details == {n \in DOMAIN slotDirs : slotDirs[n].present /\ Loads(slotDirs, n)}
           providers == {slotDirs[n].ai_provider : n \in slot_details} \ {""}
           has_project_name == \E n \in slot_details : slotDirs[n].container_name # NoName
           running_slots ==
               {n \in slot_details :
                   /\ docker_up
                   /\ slotDirs[n].container_name # NoName
                   /\ IsContainerRunning(containers, slotDirs[n].container_name)}
           to_remove ==
               {slotDirs[n].container_name : n \in slot_details \ running_slots} \ {NoName}
           refused == docker_up /\ "remove_container" \in faults
                      /\ \E c \in to_remove : ContainerExists(containers, c)
           cs == IF docker_up /\ "remove_container" \notin faults
                 THEN [c \in DOMAIN containers |->
                          IF c \in to_remove THEN NoContainer ELSE containers[c]]
                 ELSE containers
           im == IF docker_up /\ has_project_name /\ running_slots = {}
                 THEN RemoveImagesOf(providers, cs, imageTags, latestTag, faults)
                 ELSE [tags |-> imageTags, latest |-> latestTag]
       IN /\ containers' = cs
          /\ imageTags' = im.tags
          /\ latestTag' = im.latest
          /\ slotDirs' = [n \in DOMAIN slotDirs |->
                             IF slotDirs[n].present /\ n \notin running_slots
                             THEN NoDir ELSE slotDirs[n]]
          /\ inv' = Finished([NoInv EXCEPT
                                 !.op = "cleanup_all_slots",
                                 !.listed = ListSlots(slotDirs),
                                 !.engine = (IF docker_up THEN {}
                                             ELSE {<<"engine", "unreachable">>}) \cup
                                            (IF refused
                                             THEN {<<"container", "remove_refused">>}
                                             ELSE {})],
                             "none")
    /\ UNCHANGED <<config, probe>>

---------------------------------------------------------------------------
\* the providers slot_add configures without running a login container
NoLoginProviders == {"claude"}

\* slot_add of the command line: pick an unoccupied number, save the record
\* with an empty container name
SlotAdd(slot_number, ai_provider) ==
    /\ Idle
    /\ ai_provider \in NoLoginProviders
    /\ now < MaxClock
    /\ GetNextSlotNumber(slotDirs) # NoSlot
    /\ slot_number >= 1
    /\ slot_number \notin Range(ListSlots(slotDirs))
    /\ slotDirs' = Save(slotDirs, slot_number, ai_provider, NoName, now + 1)
    /\ now' = now + 1
    /\ inv' = Finished([NoInv EXCEPT !.op = "slot_add", !.slot = slot_number,
                                     !.provider = ai_provider], "none")
    /\ UNCHANGED <<containers, imageTags, latestTag, config, probe>>

\* the user edits the profile list of the project configuration
EditConfig(profiles) ==
    /\ Idle
    /\ profiles # config
    /\ config' = profiles
    /\ UNCHANGED <<slotDirs, containers, imageTags, latestTag, now, inv, probe>>

Init ==
    /\ slotDirs = [n \in SlotNums |-> NoDir]
    /\ containers = [n \in SlotNums |-> NoContainer]
    /\ imageTags = {}
    /\ latestTag = [r \in Repos |-> NoHash]
    /\ config = <<"nodejs", "python">>
    /\ now = 0
    /\ inv = NoInv
    /\ probe = [fn |-> "none"]

\* the stages of a start_container call after its first
StartStages ==
    \/ \E f \in SUBSET EnsureFaults : StartEnsureBase(f)
    \/ \E f \in SUBSET EnsureFaults : StartEnsureProvider(f)
    \/ \E f \in BOOLEAN : StartPrune(f)
    \/ \E j \in BOOLEAN : StartVolumes(j)
    \/ \E auto \in BOOLEAN, f \in SUBSET {"create", "start"} :
          StartContainer(TRUE, auto, f)
    \/ StartSave

Next ==
    \/ \E n \in (1..MaxSlotNum) \cup {NoSlot}, a \in Providers \cup {""} : StartBegin(n, a)
    \/ StartStages
    \/ \E n \in 1..MaxSlotNum, f \in BOOLEAN : StopContainer(n, f)
    \/ \E n \in 1..(MaxSlotNum + 1), up \in BOOLEAN, f \in SUBSET CleanupFaults :
          CleanupSlot(n, up, f)
    \/ \E n \in 1..MaxSlotNum, a \in NoLoginProviders : SlotAdd(n, a)
    \/ \E up \in BOOLEAN, f \in SUBSET CleanupFaults : CleanupAllSlots(up, f)


Spec == Init /\ [][Next]_vars

---------------------------------------------------------------------------
\* One slot of a project whose profile list is edited between commands
NextCache ==
    \/ \E a \in Providers \cup {""} : StartBegin(1, a)
    \/ StartStages
    \/ \E f \in BOOLEAN : StopContainer(1, f)
    \/ \E up \in BOOLEAN, f \in SUBSET CleanupFaults : CleanupSlot(1, up, f)
    \/ \E p \in ProfileLists : EditConfig(p)

SpecCache == Init /\ [][NextCache]_vars

---------------------------------------------------------------------------
\* find_available_slot applied on its own to every occupancy of the numbers
\* 1..max_slots+1 (slot_add accepts any unlisted number, also one above max_slots)
InitAlloc ==
    /\ slotDirs = [n \in SlotNums |-> NoDir]
    /\ containers = [n \in SlotNums |-> NoContainer]
    /\ imageTags = {}
    /\ latestTag = [r \in Repos |-> NoHash]
    /\ config = <<"nodejs", "python">>
    /\ now = 0
    /\ inv = NoInv
    /\ probe \in {[fn |-> "find_available_slot", occupied |-> S, applied |-> FALSE,
                   result |-> NoSlot] : S \in SUBSET (1..(max_slots + 1))}

ApplyFindAvailableSlot ==
    /\ probe.fn = "find_available_slot"
    /\ ~probe.applied
    /\ probe' = [probe EXCEPT !.applied = TRUE, !.result = FindAvailableSlot(probe.occupied)]
    /\ UNCHANGED <<slotDirs, containers, imageTags, latestTag, config, now, inv>>

NextAlloc == ApplyFindAvailableSlot

SpecAlloc == InitAlloc /\ [][NextAlloc]_vars

---------------------------------------------------------------------------
\* list_slots and get_next_slot_number applied on their own to every store in
\* which the numbers of a subset of 1..max_slots+1 hold a record written by save
RecordedDir(n) ==
    [NoDir EXCEPT !.present = TRUE, !.meta = "record", !.ai_provider = "claude",
                  !.container_name = n, !.created_at = n, !.last_used = n]

StoreOf(S) == [n \in 1..(max_slots + 1) |-> IF n \in S THEN RecordedDir(n) ELSE NoDir]

InitListing ==
    /\ slotDirs = [n \in SlotNums |-> NoDir]
    /\ containers = [n \in SlotNums |-> NoContainer]
    /\ imageTags = {}
    /\ latestTag = [r \in Repos |-> NoHash]
    /\ config = <<"nodejs", "python">>
    /\ now = 0
    /\ inv = NoInv
    /\ probe \in {[fn |-> f, dirs |-> StoreOf(S), applied |-> FALSE,
                   error |-> "none", listed |-> <<>>, result |-> NoSlot] :
                     f \in {"list_slots", "get_next_slot_number"},
                     S \in SUBSET (1..(max_slots + 1))}

ApplyListSlots ==
    /\ probe.fn = "list_slots"
    /\ ~probe.applied
    /\ probe' = IF ListSlotsRaises(probe.dirs)
                THEN [probe EXCEPT !.applied = TRUE, !.error = "TypeError"]
                ELSE [probe EXCEPT !.applied = TRUE, !.listed = ListSlots(probe.dirs)]
    /\ UNCHANGED <<slotDirs, containers, imageTags, latestTag, config, now, inv>>

ApplyGetNextSlotNumber ==
    /\ probe.fn = "get_next_slot_number"
    /\ ~probe.applied
    /\ probe' = [probe EXCEPT !.applied = TRUE, !.result = GetNextSlotNumber(probe.dirs)]
    /\ UNCHANGED <<slotDirs, containers, imageTags, latestTag, config, now, inv>>

NextListing == ApplyListSlots \/ ApplyGetNextSlotNumber

SpecListing == InitListing /\ [][NextListing]_vars

---------------------------------------------------------------------------
\* list_slots, exists/load and renumber_slots applied on their own to every store
\* over slot-1..slot-MaxDirNum.  A directory is absent, "bare" (left without a
\* metadata file by a Start that failed after prepare_volumes), holds a record,
\* or holds a metadata file that was damaged or edited outside the program.
DirKinds == {"absent", "bare", "record", "unparsable", "scalar"}

KindDir(k, n) ==
    IF k = "absent" THEN NoDir
    ELSE IF k = "record" THEN [RecordedDir(n) EXCEPT !.paths = {".claude"}]
    ELSE [NoDir EXCEPT !.present = TRUE, !.meta = IF k = "bare" THEN "none" ELSE k,
                       !.paths = {".claude"}]

InitStore ==
    /\ slotDirs = [n \in SlotNums |-> NoDir]
    /\ containers = [n \in SlotNums |-> NoContainer]
    /\ imageTags = {}
    /\ latestTag = [r \in Repos |-> NoHash]
    /\ config = <<"nodejs", "python">>
    /\ now = 0
    /\ inv = NoInv
    /\ probe \in {[fn |-> f, dirs |-> [n \in 1..MaxDirNum |-> KindDir(ks[n], n)],
                   applied |-> FALSE, error |-> "none", listed |-> <<>>,
                   exists |-> {}, loads |-> {}, result |-> NoSlot,
                   calls |-> 0, before |-> <<>>] :
                     f \in {"list_slots", "exists", "renumber_slots"},
                     ks \in [1..MaxDirNum -> DirKinds]}

\* SlotConfig.exists and SlotConfig.load of every slot number, and the number
\* find_available_slot answers
ApplyExists ==
    /\ probe.fn = "exists"
    /\ ~probe.applied
    /\ probe' = [probe EXCEPT !.applied = TRUE,
                              !.exists = {n \in DOMAIN probe.dirs : Exists(probe.dirs, n)},
                              !.loads = {n \in DOMAIN probe.dirs : Loads(probe.dirs, n)},
                              !.result = FindAvailableSlot(Occupied(probe.dirs))]
    /\ UNCHANGED <<slotDirs, containers, imageTags, latestTag, config, now, inv>>

\* renumber_slots, called once and then once more with nothing in between
ApplyRenumberSlots ==
    /\ probe.fn = "renumber_slots"
    /\ probe.calls < 2
    /\ LET r == RenumberSlots(probe.dirs)
       IN probe' = IF ListSlotsRaises(probe.dirs)
                   THEN [probe EXCEPT !.applied = TRUE, !.calls = @ + 1,
                                      !.before = probe.dirs, !.error = "TypeError"]
                   ELSE [probe EXCEPT !.applied = TRUE, !.calls = @ + 1,
                                      !.before = probe.dirs, !.dirs = r.dirs,
                                      !.error = IF r.raised THEN "shutil.Error" ELSE "none"]
    /\ UNCHANGED <<slotDirs, containers, imageTags, latestTag, config, now, inv>>

NextStore == ApplyListSlots \/ ApplyExists \/ ApplyRenumberSlots

SpecStore == InitStore /\ [][NextStore]_vars

---------------------------------------------------------------------------
\* The base fingerprint applied on its own: _generate_base_image_hash on a
\* Dockerfile body, a base image and a profile list, and the fingerprint Start
\* computes for a configured profile list, each for a list and a second list
ProfileOrders ==
    {<<>>, <<"nodejs">>, <<"python">>, <<"nodejs", "python">>, <<"python", "nodejs">>}

BaseImages == {base_image, "ubuntu:24.04"}

InitFingerprint ==
    /\ slotDirs = [n \in SlotNums |-> NoDir]
    /\ containers = [n \in SlotNums |-> NoContainer]
    /\ imageTags = {}
    /\ latestTag = [r \in Repos |-> NoHash]
    /\ config = <<"nodejs", "python">>
    /\ now = 0
    /\ inv = NoInv
    /\ probe \in
          {[fn |-> "generate_base_image_hash", body |-> Generate(b), base |-> i,
            profiles |-> p, permuted |-> q, applied |-> FALSE,
            result |-> NoHash, again |-> NoHash, result_permuted |-> NoHash] :
              b \in ProfileOrders, i \in BaseImages, p \in ProfileOrders, q \in ProfileOrders}
          \cup
          {[fn |-> "start_base_hash", body |-> <<>>, base |-> base_image,
            profiles |-> p, permuted |-> q, applied |-> FALSE,
            result |-> NoHash, again |-> NoHash, result_permuted |-> NoHash] :
              p \in ProfileOrders, q \in ProfileOrders}

\* _generate_base_image_hash(body, base, profiles), called twice, and once more
\* with the second profile list
ApplyGenerateBaseImageHash ==
    /\ probe.fn = "generate_base_image_hash"
    /\ ~probe.applied
    /\ probe' = [probe EXCEPT
                    !.applied = TRUE,
                    !.result = GenerateBaseImageHash(probe.body, probe.base, probe.profiles),
                    !.again = GenerateBaseImageHash(probe.body, probe.base, probe.profiles),
                    !.result_permuted =
                        GenerateBaseImageHash(probe.body, probe.base, probe.permuted)]
    /\ UNCHANGED <<slotDirs, containers, imageTags, latestTag, config, now, inv>>

\* the base fingerprint of start_container for each of the two configured lists:
\* the Dockerfile is generated from the list, then hashed with the list
ApplyStartBaseHash ==
    /\ probe.fn = "start_base_hash"
    /\ ~probe.applied
    /\ probe' = [probe EXCEPT !.applied = TRUE,
                              !.result = BaseTagHash(probe.profiles)[2],
                              !.again = BaseTagHash(probe.profiles)[2],
                              !.result_permuted = BaseTagHash(probe.permuted)[2]]
    /\ UNCHANGED <<slotDirs, containers, imageTags, latestTag, config, now, inv>>

NextFingerprint == ApplyGenerateBaseImageHash \/ ApplyStartBaseHash

SpecFingerprint == InitFingerprint /\ [][NextFingerprint]_vars

---------------------------------------------------------------------------
\* prepare_volumes applied on its own: for a built-in provider, or for a provider
\* that declares any of the paths below (files among them), on a slot whose
\* directory is missing or holds some of the declared paths already
DeclaredPaths == {".config", ".history.txt", ".settings.yaml"}

VolumeInputs ==
    {[name |-> "claude", mount_paths |-> MountPaths("claude")],
     [name |-> "gemini", mount_paths |-> MountPaths("gemini")]} \cup
    {[name |-> "plugin", mount_paths |-> D] : D \in SUBSET DeclaredPaths \ {{}}}

InitVolumes ==
    /\ slotDirs = [n \in SlotNums |-> NoDir]
    /\ containers = [n \in SlotNums |-> NoContainer]
    /\ imageTags = {}
    /\ latestTag = [r \in Repos |-> NoHash]
    /\ config = <<"nodejs", "python">>
    /\ now = 0
    /\ inv = NoInv
    /\ probe \in
         {[fn |-> "prepare_volumes", slot |-> n, name |-> i.name,
           mount_paths |-> i.mount_paths, claude_json |-> j,
           dirs |-> [m \in SlotNums |->
                        IF m = n /\ here
                        THEN [NoDir EXCEPT !.present = TRUE, !.paths = E]
                        ELSE NoDir],
           before |-> <<>>, volumes |-> {}, applied |-> FALSE] :
             n \in SlotNums, i \in VolumeInputs, here \in BOOLEAN,
             E \in SUBSET DeclaredPaths \cup {{".claude"}}, j \in BOOLEAN}
    /\ probe.dirs[probe.slot].paths \subseteq probe.mount_paths
    /\ probe.claude_json => (probe.name = "claude" /\ ".claude" \in probe.dirs[probe.slot].paths)

ApplyPrepareVolumes ==
    /\ probe.fn = "prepare_volumes"
    /\ ~probe.applied
    /\ LET v == PrepareVolumesOf(probe.dirs, probe.slot, probe.name, probe.mount_paths,
                                 probe.claude_json)
       IN probe' = [probe EXCEPT !.applied = TRUE, !.before = probe.dirs,
                                 !.dirs = v.dirs, !.volumes = v.volumes]
    /\ UNCHANGED <<slotDirs, containers, imageTags, latestTag, config, now, inv>>

NextVolumes == ApplyPrepareVolumes

SpecVolumes == InitVolumes /\ [][NextVolumes]_vars

---------------------------------------------------------------------------
\* The agent fingerprint applied on its own: _generate_provider_image_hash on an
\* agent layer body, an agent name and a base fingerprint, then on the same body
\* and name with a second base fingerprint; and the agent fingerprint Start
\* computes for a configured profile list and for a second one
BaseHashes == {BaseTagHash(p)[2] : p \in ProfileOrders}

ProviderBodies ==
    {GenerateProviderLayer(BaseTagHash(p), a) : p \in {<<>>, <<"nodejs">>}, a \in Providers}

InitProviderFingerprint ==
    /\ slotDirs = [n \in SlotNums |-> NoDir]
    /\ containers = [n \in SlotNums |-> NoContainer]
    /\ imageTags = {}
    /\ latestTag = [r \in Repos |-> NoHash]
    /\ config = <<"nodejs", "python">>
    /\ now = 0
    /\ inv = NoInv
    /\ probe \in
          {[fn |-> "generate_provider_image_hash", body |-> d, provider |-> a,
            base_hash |-> b, other_base_hash |-> c, profiles |-> <<>>, other_profiles |-> <<>>,
            applied |-> FALSE, result |-> NoHash, result_other |-> NoHash] :
              d \in ProviderBodies, a \in Providers, b \in BaseHashes, c \in BaseHashes}
          \cup
          {[fn |-> "start_provider_hash", body |-> <<>>, provider |-> a,
            base_hash |-> BaseTagHash(p)[2], other_base_hash |-> BaseTagHash(q)[2],
            profiles |-> p, other_profiles |-> q,
            applied |-> FALSE, result |-> NoHash, result_other |-> NoHash] :
              a \in Providers, p \in ProfileOrders, q \in ProfileOrders}

ApplyGenerateProviderImageHash ==
    /\ probe.fn = "generate_provider_image_hash"
    /\ ~probe.applied
    /\ probe' = [probe EXCEPT
                    !.applied = TRUE,
                    !.result = GenerateProviderImageHash(probe.body, probe.provider,
                                                         probe.base_hash),
                    !.result_other = GenerateProviderImageHash(probe.body, probe.provider,
                                                               probe.other_base_hash)]
    /\ UNCHANGED <<slotDirs, containers, imageTags, latestTag, config, now, inv>>

\* the agent fingerprint of start_container for each of the two configured lists:
\* the agent layer is generated FROM the base fingerprint tag, then hashed with
\* the agent name and the base fingerprint
ApplyStartProviderHash ==
    /\ probe.fn = "start_provider_hash"
    /\ ~probe.applied
    /\ probe' = [probe EXCEPT
                    !.applied = TRUE,
                    !.result = ProviderTagHash(probe.profiles, probe.provider)[2],
                    !.result_other = ProviderTagHash(probe.other_profiles, probe.provider)[2]]
    /\ UNCHANGED <<slotDirs, containers, imageTags, latestTag, config, now, inv>>

NextProviderFingerprint == ApplyGenerateProviderImageHash \/ ApplyStartProviderHash

SpecProviderFingerprint == InitProviderFingerprint /\ [][NextProviderFingerprint]_vars

---------------------------------------------------------------------------
\* Two start_container calls without a slot number running at the same time on
\* one project, as two processes sharing the slot store and the engine.  Nothing
\* in the code takes a lock, so their stages interleave freely.  probe.calls holds
\* the position and the local variables of each call.
Callers == {1, 2}

NoCall ==
    [pc |-> "begin", slot |-> NoSlot, provider |-> "", error |-> "none", volumes |-> {},
     built |-> FALSE, saw |-> {}]

Raised(call, err) == [call EXCEPT !.pc = "error", !.error = err, !.volumes = {}]

InitConcurrent ==
    /\ slotDirs \in {[n \in SlotNums |-> IF 1 <= n /\ n <= k THEN RecordedDir(n) ELSE NoDir] :
                        k \in 0..1}
    /\ containers = [n \in SlotNums |-> NoContainer]
    /\ \/ /\ imageTags = {}
          /\ latestTag = [r \in Repos |-> NoHash]
       \/ /\ imageTags = {BaseTagHash(<<"nodejs", "python">>)} \cup
                          {ProviderTagHash(<<"nodejs", "python">>, a) : a \in Providers}
          /\ latestTag = [r \in Repos |->
                             IF r = "base" THEN BaseTagHash(<<"nodejs", "python">>)[2]
                             ELSE ProviderTagHash(<<"nodejs", "python">>, r)[2]]
    /\ config = <<"nodejs", "python">>
    /\ now = 0
    /\ inv = NoInv
    /\ probe = [fn |-> "concurrent_start", calls |-> [c \in Callers |-> NoCall]]

\* a find_available_slot that reserves the number it returns by writing the record
ConcurrentBeginReserving(c, ai_provider) ==
    /\ probe.fn = "concurrent_start" /\ probe.calls[c].pc = "begin"
    /\ ai_provider # ""
    /\ LET slot == FindAvailableSlot(Occupied(slotDirs))
       IN /\ slot # NoSlot /\ slot <= MaxSlotNum
          /\ slotDirs' = Save(slotDirs, slot, ai_provider, slot, now)
          /\ probe' = [probe EXCEPT !.calls[c] =
                          [@ EXCEPT !.pc = "ensure_base", !.slot = slot,
                                    !.provider = ai_provider, !.saw = Occupied(slotDirs)]]
    /\ UNCHANGED <<containers, imageTags, latestTag, config, now, inv>>

\* Steps 1-3 of one call: find_available_slot, then the provider given on the
\* command line ("" for none: a new slot has no preconfigured provider)
ConcurrentBegin(c, ai_provider) ==
    /\ probe.fn = "concurrent_start" /\ probe.calls[c].pc = "begin"
    /\ LET slot == FindAvailableSlot(Occupied(slotDirs))
           call == [probe.calls[c] EXCEPT !.slot = slot, !.saw = Occupied(slotDirs)]
       IN /\ slot <= MaxSlotNum
          /\ probe' = [probe EXCEPT !.calls[c] =
                          IF slot = NoSlot THEN Raised(call, "NoAvailableSlotsError")
                          ELSE IF ai_provider # ""
                          THEN [call EXCEPT !.pc = "ensure_base", !.provider = ai_provider]
                          ELSE IF GetAiProvider(slotDirs, slot) # ""
                          THEN [call EXCEPT !.pc = "ensure_base",
                                            !.provider = GetAiProvider(slotDirs, slot)]
                          ELSE Raised(call, "No AI provider specified for slot")]
    /\ UNCHANGED <<slotDirs, containers, imageTags, latestTag, config, now, inv>>

\* Steps 5 and 6 of one call
ConcurrentEnsure(c, faults) ==
    /\ probe.fn = "concurrent_start" /\ probe.calls[c].pc \in {"ensure_base", "ensure_provider"}
    /\ LET call == probe.calls[c]
           base == call.pc = "ensure_base"
           r == EnsureImageExists(imageTags, latestTag,
                                  IF base THEN BaseTagHash(config)
                                  ELSE ProviderTagHash(config, call.provider), faults)
       IN /\ imageTags' = r.tags
          /\ latestTag' = r.latest
          /\ probe' = [probe EXCEPT !.calls[c] =
                          IF r.error # "none" THEN Raised(call, r.error)
                          ELSE IF base THEN [call EXCEPT !.pc = "ensure_provider"]
                          ELSE [call EXCEPT !.pc = IF r.built THEN "prune" ELSE "volumes",
                                            !.built = r.built]]
    /\ UNCHANGED <<slotDirs, containers, config, now, inv>>

\* prune_dangling_images of one call
ConcurrentPrune(c, fault) ==
    /\ probe.fn = "concurrent_start" /\ probe.calls[c].pc = "prune"
    /\ probe' = [probe EXCEPT !.calls[c] =
                    IF fault THEN Raised(@, "DockerError") ELSE [@ EXCEPT !.pc = "volumes"]]
    /\ UNCHANGED <<slotDirs, containers, imageTags, latestTag, config, now, inv>>

\* Steps 6-7 of one call
ConcurrentVolumes(c) ==
    /\ probe.fn = "concurrent_start" /\ probe.calls[c].pc = "volumes"
    /\ LET call == probe.calls[c]
           v == PrepareVolumes(slotDirs, call.slot, call.provider, FALSE)
       IN /\ slotDirs' = v.dirs
          /\ probe' = [probe EXCEPT !.calls[c] =
                          [call EXCEPT !.pc = "container", !.volumes = v.volumes]]
    /\ UNCHANGED <<containers, imageTags, latestTag, config, now, inv>>

\* Step 8 of one call, as start_command has it made: reuse_existing=True
ConcurrentContainer(c, auto_remove, faults) ==
    /\ probe.fn = "concurrent_start" /\ probe.calls[c].pc = "container"
    /\ LET call == probe.calls[c]
           container_name == call.slot
           fresh == [status |-> "created", image |-> <<call.provider, latestTag[call.provider]>>,
                     mounts |-> call.volumes, auto_remove |-> auto_remove]
           Fail(cs) ==
               /\ containers' = cs
               /\ probe' = [probe EXCEPT !.calls[c] = Raised(call, "ContainerStartError")]
           Ok(cs) ==
               /\ containers' = cs
               /\ probe' = [probe EXCEPT !.calls[c] = [call EXCEPT !.pc = "save"]]
       IN IF ContainerExists(containers, container_name)
          THEN IF IsContainerRunning(containers, container_name)
               THEN Ok(containers)
               ELSE IF "start" \in faults
                    THEN Fail(containers)
                    ELSE Ok([containers EXCEPT ![container_name].status = "running"])
          ELSE IF "create" \in faults
               THEN Fail(containers)
               ELSE IF "start" \in faults
                    THEN Fail([containers EXCEPT ![container_name] = fresh])
                    ELSE Ok([containers EXCEPT ![container_name] =
                                 [fresh EXCEPT !.status = "running"]])
    /\ UNCHANGED <<slotDirs, imageTags, latestTag, config, now, inv>>

\* Step 9 of one call
ConcurrentSave(c) ==
    /\ probe.fn = "concurrent_start" /\ probe.calls[c].pc = "save"
    /\ LET call == probe.calls[c]
       IN /\ slotDirs' = Save(slotDirs, call.slot, call.provider, call.slot, now)
          /\ probe' = [probe EXCEPT !.calls[c] = [call EXCEPT !.pc = "done", !.volumes = {}]]
    /\ UNCHANGED <<containers, imageTags, latestTag, config, now, inv>>

NextConcurrent ==
    \E c \in Callers :
        \/ \E a \in Providers \cup {""} : ConcurrentBegin(c, a)
        \/ \E f \in SUBSET EnsureFaults : ConcurrentEnsure(c, f)
        \/ \E f \in BOOLEAN : ConcurrentPrune(c, f)
        \/ ConcurrentVolumes(c)
        \/ \E r \in BOOLEAN, f \in SUBSET {"create", "start"} : ConcurrentContainer(c, r, f)
        \/ ConcurrentSave(c)

SpecConcurrent == InitConcurrent /\ [][NextConcurrent]_vars

---------------------------------------------------------------------------
\* The session of one start_command: after its start_container has returned it
\* attaches to the agent, and when the attach ends it stops the container.  While
\* the session is attached, commands given in other terminals go on.  probe holds
\* the position of the session, the slot number and container name of its
\* container_info, how the attach ended, and how often it called stop_container.
NoSession ==
    [fn |-> "start_command", pc |-> "start", slot |-> NoSlot, container |-> NoName,
     outcome |-> "none", stops |-> 0]

InitSession ==
    /\ slotDirs = [n \in SlotNums |-> NoDir]
    /\ containers = [n \in SlotNums |-> NoContainer]
    /\ imageTags = {}
    /\ latestTag = [r \in Repos |-> NoHash]
    /\ config = <<"nodejs", "python">>
    /\ now = 0
    /\ inv = NoInv
    /\ probe = NoSession

\* orchestrator.stop_container as start_command calls it: whatever it raises is
\* caught and reported as a warning (or ignored, on the interrupt path)
StopContainerQuietly(cs, dirs, slot_number, fault) ==
    LET recorded == GetContainerName(dirs, slot_number)
        container_name == IF recorded # NoName THEN recorded ELSE slot_number
    IN IF slot_number < 1 \/ ~ContainerExists(cs, container_name) \/ fault
       THEN cs
       ELSE Stopped(cs, container_name)

\* start_container has returned container_info; attach_to_container begins
StartCommandAttach ==
    /\ probe.fn = "start_command" /\ probe.pc = "start"
    /\ inv.op = "start" /\ inv.pc = "done"
    /\ probe' = [probe EXCEPT !.pc = "attached", !.slot = inv.slot, !.container = inv.slot]
    /\ UNCHANGED <<slotDirs, containers, imageTags, latestTag, config, now, inv>>

\* the attach ends: the agent exits, attach_to_container raises, or the user
\* interrupts
AttachEnds(outcome) ==
    /\ probe.fn = "start_command" /\ probe.pc = "attached"
    /\ probe' = [probe EXCEPT !.pc = "finally", !.outcome = outcome]
    /\ UNCHANGED <<slotDirs, containers, imageTags, latestTag, config, now, inv>>

\* the finally block: stop_container for the slot of container_info; after an
\* interrupt the KeyboardInterrupt handler follows, otherwise the process exits
StartCommandStop(fault) ==
    /\ probe.fn = "start_command" /\ probe.pc = "finally"
    /\ containers' = StopContainerQuietly(containers, slotDirs, probe.slot, fault)
    /\ probe' = [probe EXCEPT !.pc = IF probe.outcome = "interrupt" THEN "interrupted"
                                     ELSE "exited",
                              !.stops = @ + 1]
    /\ UNCHANGED <<slotDirs, imageTags, latestTag, config, now, inv>>

\* the KeyboardInterrupt handler: stop_container once more, then exit
StartCommandInterrupted(fault) ==
    /\ probe.fn = "start_command" /\ probe.pc = "interrupted"
    /\ containers' = StopContainerQuietly(containers, slotDirs, probe.slot, fault)
    /\ probe' = [probe EXCEPT !.pc = "exited", !.stops = @ + 1]
    /\ UNCHANGED <<slotDirs, imageTags, latestTag, config, now, inv>>

NextSession ==
    \/ \E n \in (1..MaxSlotNum) \cup {NoSlot}, a \in Providers \cup {""} : StartBegin(n, a)
    \/ StartStages
    \/ \E n \in 1..(MaxSlotNum + 1), up \in BOOLEAN, f \in SUBSET CleanupFaults :
          CleanupSlot(n, up, f)
    \/ \E n \in 1..MaxSlotNum, a \in NoLoginProviders : SlotAdd(n, a)
    \/ StartCommandAttach
    \/ \E o \in {"exit", "error", "interrupt"} : AttachEnds(o)
    \/ \E f \in BOOLEAN : StartCommandStop(f)
    \/ \E f \in BOOLEAN : StartCommandInterrupted(f)

SpecSession == InitSession /\ [][NextSession]_vars

---------------------------------------------------------------------------
\* Properties of the slot lifecycle

\* a step in which a cleanup_slot call deletes the slot and renumbers the rest
CleanupStep ==
    /\ now' # now
    /\ inv'.op = "cleanup_slot"
    /\ ~inv'.skipped
    /\ inv'.slot >= 1

\* C1: after renumber_slots the listed slot numbers are exactly 1..k, k the number
\* of slots listed before the call, in the same relative order, and every slot keeps
\* its ai_provider, container_name, created_at and last_used.  (renumber_slots runs
\* as the last step of cleanup_slot, on the store left by the deletion.)
C1_RenumberCompactsAndPreserves ==
    [][CleanupStep =>
          LET store == Delete(slotDirs, inv'.slot)
              before == SortedByNumber(Range(ListSlots(store)))
              k == Len(before)
          IN /\ Range(ListSlots(slotDirs')) = 1..k
             /\ \A i \in 1..k : /\ slotDirs'[i].meta = "record"
                                 /\ Load(slotDirs', i) = Load(store, before[i])]_vars

\* C2: cleanup_slot(n) on a slot whose container is not running, with slots 1..k
\* listed beforehand and n among them, removes the directory of slot n and leaves
\* exactly the numbers 1..k-1, every slot m > n sitting at m-1 with its ai_provider,
\* container_name and configuration directories unchanged.
C2_CleanupShiftsHigherSlotsDown ==
    [][(/\ CleanupStep
        /\ Range(ListSlots(slotDirs)) = 1..Len(ListSlots(slotDirs))
        /\ inv'.slot \in Range(ListSlots(slotDirs)))
       => LET n == inv'.slot
              k == Len(ListSlots(slotDirs))
          IN /\ Range(ListSlots(slotDirs')) = 1..(k - 1)
             /\ ~slotDirs'[k].present
             /\ \A m \in 1..(n - 1) : slotDirs'[m] = slotDirs[m]
             /\ \A m \in (n + 1)..k :
                   /\ slotDirs'[m - 1].meta = "record"
                   /\ slotDirs'[m - 1].ai_provider = slotDirs[m].ai_provider
                   /\ slotDirs'[m - 1].container_name = slotDirs[m].container_name
                   /\ slotDirs'[m - 1].paths = slotDirs[m].paths]_vars

\* slots 1 and 2 were listed, slot 1 was cleaned up, and the record that a Start
\* bound to container 2 now sits at number 1
C2_Witness ==
    /\ inv.op = "cleanup_slot" /\ inv.pc = "done" /\ ~inv.skipped
    /\ inv.slot = 1
    /\ inv.listed = <<1, 2>>
    /\ ListSlots(slotDirs) = <<1>>
    /\ slotDirs[1].container_name = 2

\* C3: find_available_slot returns the lowest number of 1..max_slots whose record
\* file does not exist, never a number whose record exists, and raises
\* NoAvailableSlotsError exactly when every number of 1..max_slots is occupied.
C3_FindAvailableSlotLowestFree ==
    (probe.fn = "find_available_slot" /\ probe.applied) =>
        LET free == (1..max_slots) \ probe.occupied
        IN IF free = {} THEN probe.result = NoSlot
           ELSE /\ probe.result \in free
                /\ \A x \in free : probe.result <= x

\* slots 1, 2 and 4 are occupied and the scan answered 3
C3_Witness ==
    /\ probe.fn = "find_available_slot" /\ probe.applied
    /\ probe.occupied = {1, 2, 4}
    /\ probe.result = 3

---------------------------------------------------------------------------
\* Properties of start_container and stop_container

Layers == {"base", "provider"}

ContainerStep == inv.op = "start" /\ inv.pc = "container" /\ inv'.pc # "container"

\* what an invocation asked of the engine about containers
ContainerCalls(call) == {x[2] : x \in {y \in call.engine : y[1] = "container"}}

AgentMounts(volumes) == {v \in volumes : v.host[1] # NoSlot}

C10_AgentResolution ==
    [][(inv'.op = "start" /\ now' # now /\ inv'.slot \in DOMAIN slotDirs) =>
          LET n == inv'.slot
              recorded == IF slotDirs[n].meta = "record" THEN slotDirs[n].ai_provider ELSE ""
          IN IF inv'.agent_arg # ""
             THEN inv'.provider = inv'.agent_arg /\ inv'.pc = "ensure_base"
             ELSE IF recorded # ""
             THEN inv'.provider = recorded /\ inv'.pc = "ensure_base"
             ELSE /\ inv'.pc = "error"
                  /\ inv'.error = "No AI provider specified for slot"
                  /\ inv'.engine = {}
                  /\ UNCHANGED <<slotDirs, containers, imageTags, latestTag>>]_vars

\* a Start without an agent argument on a slot without a record was refused
C10_Witness ==
    /\ inv.op = "start" /\ inv.pc = "error"
    /\ inv.agent_arg = ""
    /\ inv.error = "No AI provider specified for slot"

---------------------------------------------------------------------------
\* Properties of listing and sequential allocation

\* the numbers that hold a record in a store
Recorded(dirs) == {n \in DOMAIN dirs : dirs[n].present /\ dirs[n].meta = "record"}

\* C12: list_slots returns the existing slots in ascending numeric slot-number
\* order, for every set of existing slot numbers within 1..max_slots.
C12_ListSlotsAscending ==
    (/\ probe.fn = "list_slots" /\ probe.applied
     /\ Recorded(probe.dirs) \subseteq 1..max_slots)
        => probe.listed = SortedByNumber(Recorded(probe.dirs))

C11_RenumberIdempotent ==
    (probe.fn = "renumber_slots" /\ probe.calls = 2) => probe.dirs = probe.before

\* C13: a slot whose record file is corrupted, unparsable, empty or otherwise
\* malformed is omitted from list_slots, all valid slots are still listed, and
\* list_slots never raises because of one bad record.
C13_ListSlotsSkipsBadRecords ==
    (/\ probe.fn = "list_slots" /\ probe.applied
     /\ DOMAIN probe.dirs = 1..MaxDirNum)
        => /\ probe.error = "none"
           /\ Range(probe.listed) = Recorded(probe.dirs)

\* C14: for every slot number, SlotConfig.exists() is true exactly when load()
\* returns a record, so allocation and listing agree on which numbers are occupied.
C14_ExistsIffLoads ==
    (probe.fn = "exists" /\ probe.applied) => probe.exists = probe.loads

---------------------------------------------------------------------------
\* Properties of cleanup_all_slots

\* a step of cleanup_all_slots
CleanupAllStep == now' # now /\ inv'.op = "cleanup_all_slots"

\* slot n holds a record bound to a container that is running
RunsContainer(n) ==
    /\ slotDirs[n].present /\ slotDirs[n].meta = "record"
    /\ slotDirs[n].container_name # NoName
    /\ containers[slotDirs[n].container_name].status = "running"

\* C16: after cleanup_all_slots returns having skipped at least one slot because
\* its container is running, the surviving slots are numbered exactly 1..k.
C16_CleanupAllRenumbers ==
    [][(CleanupAllStep /\ \E n \in DOMAIN slotDirs : RunsContainer(n))
       => Range(ListSlots(slotDirs')) = 1..Len(ListSlots(slotDirs'))]_vars

---------------------------------------------------------------------------
\* Properties of the base fingerprint

\* two lists of the same profile specs in some order
IsPermutation(p, q) == Len(p) = Len(q) /\ Range(p) = Range(q)

\* C18: for Start, permuting the configured profile list (same profile specs, same
\* base image) yields the same base-layer fingerprint.
C18_StartBaseHashOrderIndependent ==
    (/\ probe.fn = "start_base_hash" /\ probe.applied
     /\ IsPermutation(probe.profiles, probe.permuted))
        => probe.result = probe.result_permuted

\* C19: _generate_base_image_hash is deterministic and independent of the order of
\* the profile list: for a fixed Dockerfile body and base image, two permutations
\* of the same profile specs give the same fingerprint, and a repeated call with
\* identical inputs gives the identical result.
C19_BaseHashDeterministic ==
    (probe.fn = "generate_base_image_hash" /\ probe.applied) =>
        /\ probe.result = probe.again
        /\ IsPermutation(probe.profiles, probe.permuted)
              => probe.result = probe.result_permuted

\* one Dockerfile body hashed with the list nodejs, python and with python, nodejs
C19_Witness ==
    /\ probe.fn = "generate_base_image_hash" /\ probe.applied
    /\ probe.profiles = <<"nodejs", "python">>
    /\ probe.permuted = <<"python", "nodejs">>
    /\ probe.result = probe.result_permuted
    /\ probe.result # NoHash

---------------------------------------------------------------------------
\* Properties of the record Start writes

\* C20: when Start persists the container name for a slot whose record already
\* exists, the record's ai_provider, created_at and last_used keep their prior
\* values and only container_name is updated.
C20_BindKeepsAgentAndTimestamps ==
    [][(/\ inv.op = "start" /\ inv.pc = "save" /\ inv'.pc = "done"
        /\ slotDirs[inv.slot].present /\ slotDirs[inv.slot].meta = "record")
       => /\ slotDirs'[inv.slot].ai_provider = slotDirs[inv.slot].ai_provider
          /\ slotDirs'[inv.slot].created_at = slotDirs[inv.slot].created_at
          /\ slotDirs'[inv.slot].last_used = slotDirs[inv.slot].last_used]_vars

---------------------------------------------------------------------------
\* Properties of failure and cancellation during Start

\* C21: if an engine failure occurs during Start after a container has been
\* created but before it is confirmed started, that partially created container
\* is removed before Start exits, and no slot record is written for it.
C21_PartialContainerRemoved ==
    [][(/\ ContainerStep /\ inv'.pc = "error"
        /\ "create" \in ContainerCalls(inv'))
       => /\ containers'[inv.slot].status = "absent"
          /\ Records(slotDirs') = Records(slotDirs)]_vars

---------------------------------------------------------------------------
\* Properties of prepare_volumes

\* the mount prepare_volumes makes for a configuration path of the slot
ConfigMount(slot_number, p) ==
    [host |-> <<slot_number, p>>, bind |-> <<"/home/aibox", p>>, mode |-> "rw"]

---------------------------------------------------------------------------
\* Properties of the image layers of Start

\* a step in which _ensure_image_exists returns normally for the base layer
BaseEnsured == inv.op = "start" /\ inv.pc = "ensure_base" /\ inv'.pc = "ensure_provider"

\* a step in which _ensure_image_exists returns normally for the agent layer
ProviderEnsured ==
    inv.op = "start" /\ inv.pc = "ensure_provider" /\ inv'.pc \in {"prune", "volumes"}

\* the fingerprint tag exists and :latest of its repository names the same image
TaggedLatest(tags, latest, tag) == tag \in tags /\ latest[tag[1]] = tag[2]

\* C25: whenever _ensure_image_exists returns normally, an image exists under the
\* fingerprint tag and the :latest tag of that layer refers to the same image,
\* also when retagging a cached image failed and the layer was rebuilt.
C25_EnsuredTagAndLatest ==
    [][/\ BaseEnsured => TaggedLatest(imageTags', latestTag', BaseTagHash(inv.cfg))
       /\ ProviderEnsured =>
             TaggedLatest(imageTags', latestTag', ProviderTagHash(inv.cfg, inv.provider))]_vars

\* the agent layer was cached, its retag failed, it was rebuilt and retagged
C25_Witness ==
    /\ inv.op = "start" /\ inv.pc = "prune"
    /\ <<"provider", "retag_failed">> \in inv.engine
    /\ TaggedLatest(imageTags, latestTag, ProviderTagHash(inv.cfg, inv.provider))

\* C26: if a build completes but the fingerprint tag does not exist afterwards,
\* _ensure_image_exists raises ImageBuildError: the :latest tag is not moved, no
\* container is created or started, and no slot record is written by that Start.
C26_MissingTagIsHardError ==
    [][\A layer \in Layers :
         (inv.op = "start" /\ <<layer, "tag_missing">> \in inv'.engine \ inv.engine)
         => /\ inv'.pc = "error" /\ inv'.error = "ImageBuildError"
            /\ latestTag' = latestTag
            /\ containers' = containers
            /\ Records(slotDirs') = inv.before]_vars

\* a Start ended with ImageBuildError because the agent layer's build left no
\* tag, after the base layer had been built and tagged
C26_Witness ==
    /\ inv.op = "start" /\ inv.pc = "error" /\ inv.error = "ImageBuildError"
    /\ <<"provider", "tag_missing">> \in inv.engine
    /\ ProviderTagHash(inv.cfg, inv.provider) \notin imageTags
    /\ latestTag[inv.provider] = NoHash
    /\ containers[inv.slot].status = "absent"

\* what the engine holds of the agent layer of the running Start
ProviderImages == <<imageTags \cap {ProviderTagHash(inv.cfg, inv.provider)}, latestTag[inv.provider]>>

\* C27: in every Start the agent layer's existence check and build begin only
\* after the base layer's fingerprint tag exists and has been tagged :latest; if
\* ensuring the base layer fails, no agent-layer build is attempted.
C27_BaseBeforeProvider ==
    [][/\ (inv'.op = "start" /\ inv'.pc = "ensure_provider")
          => TaggedLatest(imageTags', latestTag', BaseTagHash(inv'.cfg))
       /\ (\E c \in {"retag_failed", "build", "tag_missing"} :
              <<"provider", c>> \in inv'.engine \ inv.engine)
          => /\ inv.op = "start" /\ inv.pc = "ensure_provider"
             /\ TaggedLatest(imageTags, latestTag, BaseTagHash(inv.cfg))
       /\ (inv.op = "start" /\ inv.pc = "ensure_base" /\ inv'.pc = "error")
          => /\ \A c \in {"retag_failed", "build", "tag_missing"} :
                   <<"provider", c>> \notin inv'.engine
             /\ ProviderImages' = ProviderImages]_vars

\* a Start whose base build failed ended without anything asked about the agent
\* layer
C27_Witness ==
    /\ inv.op = "start" /\ inv.pc = "error" /\ ~inv.ensured
    /\ <<"base", "build">> \in inv.engine
    /\ BaseTagHash(inv.cfg) \notin imageTags
    /\ \A c \in {"retag_failed", "build", "tag_missing"} : <<"provider", c>> \notin inv.engine
    /\ ProviderTagHash(inv.cfg, inv.provider) \notin imageTags

\* C28: any change of the base fingerprint changes every dependent agent
\* fingerprint: for a fixed agent layer body and agent name, different base
\* fingerprints give different agent fingerprints, so the agent fingerprint Start
\* computes on a new base differs from the one it computed on an older base.
C28_ProviderHashFollowsBase ==
    (probe.fn \in {"generate_provider_image_hash", "start_provider_hash"} /\ probe.applied)
    => (probe.base_hash # probe.other_base_hash => probe.result # probe.result_other)

\* one agent layer body and agent name hashed with two different base
\* fingerprints, giving two different agent fingerprints
C28_Witness ==
    /\ probe.fn = "generate_provider_image_hash" /\ probe.applied
    /\ probe.base_hash # probe.other_base_hash
    /\ probe.result # probe.result_other

---------------------------------------------------------------------------
\* Properties of the dangling-image cleanup

\* a step in which Start has the engine prune the dangling images
PruneStep == inv.op = "start" /\ <<"images", "prune">> \in inv'.engine \ inv.engine

\* C29: a failure of the dangling-image cleanup that follows a successful
\* agent-layer build does not fail Start: Start goes on to the volumes, the
\* container and the slot record.
C29_PruneFailureSwallowed ==
    [][PruneStep => (inv'.pc = "volumes" /\ inv'.error = "none")]_vars

\* C30: Start triggers dangling-image pruning exactly when the agent layer was
\* built during that Start (a rebuild after a failed retag included); a Start in
\* which the agent layer was a pure cache hit never prunes.
C30_PruneIffProviderBuilt ==
    [][/\ ProviderEnsured
          => /\ inv'.pc = "prune" <=> <<"provider", "build">> \in inv'.engine
             /\ inv'.pc = "volumes" <=> inv'.engine \cap ({"provider"} \X {"build", "retag_failed"}) = {}
       /\ PruneStep => (inv.pc = "prune" /\ <<"provider", "build">> \in inv.engine)
       /\ (inv.op = "start" /\ inv.pc = "prune") => (inv' = inv \/ PruneStep)
       /\ (inv.op = "start" /\ inv.pc = "volumes" /\ inv'.pc = "container")
          => (<<"images", "prune">> \in inv.engine <=> <<"provider", "build">> \in inv.engine)]_vars

\* a Start pruned after rebuilding the agent layer whose retag had failed
C30_Witness ==
    /\ inv.op = "start" /\ inv.pc = "volumes"
    /\ <<"images", "prune">> \in inv.engine
    /\ <<"provider", "retag_failed">> \in inv.engine
    /\ <<"provider", "build">> \in inv.engine

---------------------------------------------------------------------------
\* Properties of concurrent Starts

\* the call has chosen its slot and has not yet saved the slot record or failed
InFlight(call) == call.pc \notin {"begin", "done", "error"}

\* C24: with no locking around slot allocation, two Start invocations running
\* concurrently with no explicit slot number on the same project can both decide
\* that the same slot number is free and proceed with the same slot: whenever one
\* call allocates while the other is between its allocation and its save, it is
\* given the very slot number the other holds, and nothing later stops either.
C24_ConcurrentStartsShareSlot ==
    [][\A c \in Callers, d \in Callers :
         (/\ probe.fn = "concurrent_start" /\ c # d
          /\ probe.calls[c].pc = "begin" /\ probe.calls'[c].pc # "begin"
          /\ InFlight(probe.calls[d]))
         => /\ probe.calls'[c].slot = probe.calls[d].slot
            /\ probe.calls'[c].saw = probe.calls[d].saw]_vars

\* both calls ran to the end on the same slot: allocated before either had saved,
\* one container under the slot's name, one slot record written by both
C24_Witness ==
    /\ probe.fn = "concurrent_start"
    /\ probe.calls[1].pc = "done" /\ probe.calls[2].pc = "done"
    /\ probe.calls[1].slot = probe.calls[2].slot
    /\ probe.calls[1].saw = probe.calls[2].saw
    /\ probe.calls[1].provider # probe.calls[2].provider
    /\ containers[probe.calls[1].slot].status = "running"
    /\ Loads(slotDirs, probe.calls[1].slot)
    /\ Cardinality({n \in DOMAIN containers : containers[n].status # "absent"}) = 1

---------------------------------------------------------------------------
\* Properties of the start_command session

\* C22: whenever the interactive attach of start_command ends, by normal exit, by
\* error or by user interrupt, stop_container is invoked for that slot before the
\* process exits, so the session's container is not running when the process
\* exits.
C22_SessionStopsContainer ==
    [][(probe.fn = "start_command" /\ probe.pc # "exited" /\ probe'.pc = "exited")
       => /\ probe'.stops >= 1
          /\ containers'[probe.container].status # "running"]_vars

---------------------------------------------------------------------------
\* Properties of the slot store under renumbering

\* C31: renumbering moves each slot's whole directory: after renumber_slots the
\* agent configuration subdirectories of a renumbered slot sit directly under its
\* new slot-<i> directory next to its metadata record, and nothing belonging to
\* that slot remains under its old number.
C31_RenumberMovesWholeDirectory ==
    (probe.fn = "renumber_slots" /\ probe.calls = 1 /\ probe.error = "none") =>
        LET sorted_slots == SortedByNumber(Range(ListSlots(probe.before)))
            k == Len(sorted_slots)
        IN \A i \in 1..k :
              sorted_slots[i] # i =>
                 /\ probe.dirs[i].meta = "record"
                 /\ probe.dirs[i].paths = probe.before[sorted_slots[i]].paths
                 /\ \A n \in DOMAIN probe.dirs : sorted_slots[i] \notin probe.dirs[n].nested
                 /\ sorted_slots[i] > k => ~probe.dirs[sorted_slots[i]].present

\* C35: renumber_slots never loses a slot: the collection of (ai_provider,
\* container_name) records listed after the call equals the collection listed
\* before it, also when a lower-numbered slot directory exists without a parsable
\* metadata file.
C35_RenumberLosesNoSlot ==
    (probe.fn = "renumber_slots" /\ probe.calls = 1 /\ probe.error = "none") =>
        LET before == ListSlots(probe.before)
            after == ListSlots(probe.dirs)
            Record(dirs, n) == <<dirs[n].ai_provider, dirs[n].container_name>>
        IN /\ Len(after) = Len(before)
           /\ {Record(probe.dirs, n) : n \in Range(after)}
                 = {Record(probe.before, n) : n \in Range(before)}

---------------------------------------------------------------------------
\* Properties relating slot records and containers

\* C32: whenever start_container returns successfully for slot n with agent a,
\* the container it returns (the one named after slot n) was created from the
\* project's agent-a image.
C32_ReturnedContainerRunsAgentImage ==
    [][(inv.op = "start" /\ inv.pc = "save" /\ inv'.pc = "done")
       => /\ ContainerExists(containers, inv.slot)
          /\ containers[inv.slot].image[1] = inv.provider]_vars

\* C33: in every state reachable by sequential start, stop, slot-add and cleanup
\* operations, no two existing slot records hold the same non-empty
\* container_name.
C33_ContainerNamesUnique ==
    \A m, n \in DOMAIN slotDirs :
        (m # n /\ Loads(slotDirs, m) /\ Loads(slotDirs, n)
              /\ GetContainerName(slotDirs, m) # NoName)
           => GetContainerName(slotDirs, m) # GetContainerName(slotDirs, n)

\* C34: no orphan containers: between operations, every existing container that
\* Start created without auto-remove is named by the container_name of some
\* existing slot record.
C34_NoOrphanContainers ==
    Idle =>
        \A c \in DOMAIN containers :
            (ContainerExists(containers, c) /\ ~containers[c].auto_remove)
               => \E n \in DOMAIN slotDirs :
                     Loads(slotDirs, n) /\ GetContainerName(slotDirs, n) = c

\* C38: cleanup_slot and cleanup_all_slots never remove an image tag while some
\* existing container of the project, of whatever slot, was created from that
\* image: every tag (and every :latest) a cleanup removes is used by no container
\* that exists once the cleanup has removed the containers it removes.
C38_CleanupKeepsImagesInUse ==
    [][inv'.op \in {"cleanup_slot", "cleanup_all_slots"}
       => /\ \A t \in imageTags \ imageTags' : ~IsImageInUse(containers', t)
          /\ \A r \in Repos :
                (latestTag[r] # NoHash /\ latestTag'[r] = NoHash)
                   => ~IsImageInUse(containers', <<r, latestTag[r]>>)]_vars

\* a cleanup_all_slots reached the engine, which refused to remove a stopped
\* container; no container runs, so the image removal ran, and the tag of the
\* image that container was created from is still there
C38_Witness ==
    /\ inv.op = "cleanup_all_slots"
    /\ <<"container", "remove_refused">> \in inv.engine
    /\ \A c \in DOMAIN containers : ~IsContainerRunning(containers, c)
    /\ \E c \in DOMAIN containers :
          /\ ContainerExists(containers, c)
          /\ containers[c].image \in imageTags
          /\ latestTag[containers[c].image[1]] = containers[c].image[2]

---------------------------------------------------------------------------
\* start_container called with explicit slot numbers from 0 upwards, the callers
\* of the method not being bound to the range the command line checks
NextExplicit ==
    \/ \E n \in 0..1, a \in Providers \cup {""} : StartBegin(n, a)
    \/ StartStages

SpecExplicit == Init /\ [][NextExplicit]_vars

\* C36: start_container called with an explicit slot number below 1 fails with
\* SlotNotFoundError before any side effect: every step of such a call leaves the
\* images, the slot directories and the containers as they were, and the call is
\* never past its first step without having raised SlotNotFoundError.
C36_BelowOneFailsBeforeSideEffects ==
    [][(inv'.op = "start" /\ inv'.slot = 0)
       => /\ inv'.pc = "error" /\ inv'.error = "SlotNotFoundError"
          /\ UNCHANGED <<slotDirs, containers, imageTags, latestTag>>]_vars

---------------------------------------------------------------------------
\* A project whose slot store has room for the directories slot-1..slot-11:
\* slot add with every number the prompt accepts, Start with automatic slot
\* allocation, and cleanup_slot
InitSlots ==
    /\ slotDirs = [n \in 0..(max_slots + 1) |-> NoDir]
    /\ containers = [n \in SlotNums |-> NoContainer]
    /\ imageTags = {}
    /\ latestTag = [r \in Repos |-> NoHash]
    /\ config = <<"nodejs", "python">>
    /\ now = 0
    /\ inv = NoInv
    /\ probe = [fn |-> "none"]

NextSlots ==
    \/ \E n \in 1..(max_slots + 1), a \in NoLoginProviders : SlotAdd(n, a)
    \/ \E a \in Providers : StartBegin(NoSlot, a)
    \/ StartStages
    \/ \E n \in 1..(max_slots + 1) : CleanupSlot(n, TRUE, {})

SpecSlots == InitSlots /\ [][NextSlots]_vars

\* C37: after any sequence of allocate, slot-add, start and cleanup operations,
\* every existing slot record has a number in 1..max_slots, so a project never
\* holds more than max_slots slots.
C37_RecordsWithinMaxSlots ==
    /\ \A n \in DOMAIN slotDirs : Loads(slotDirs, n) => n \in 1..max_slots
    /\ Len(ListSlots(slotDirs)) <= max_slots

====
